---- MODULE Spec2Model ----
(***************************************************************************)
(* The vault ledger of EmotionalOS: PrismaStorage (server/prisma-storage,  *)
(* kept in src/shared/schema.ts lines 128-736) over the SQLite tables of   *)
(* the initial migration (src/unnamed/part_002).                           *)
(*                                                                         *)
(* One user partition is modelled (getUserId always resolves the single    *)
(* local user).  The VaultEntry columns id and createdAt are generated by  *)
(* the database and read by no modelled operation; they are left out.      *)
(***************************************************************************)
EXTENDS Integers, Sequences, FiniteSets, TLC

\* ------------------------------------------------------------------ bounds
\* Most vault entries a run appends.
MaxChain == 3
\* Most domain records (emotional states plus NSSI events) a run creates.
MaxRecords == 3
\* Number of concurrent request handlers.
NumProcs == 2

Procs == 1..NumProcs

\* ------------------------------------------------------ input value sets
Intensities == {62}
Valences == {-20, 10}
Arousals == {70}
Severities == {2, 9}

\* ---------------------------------------------------------- JS values
\* A JS value is a tagged record: null, a number, a string literal, a record
\* id (a generated string), a hex digest (a string), or an object, which is
\* the sequence of its key/value pairs in insertion order.
Null == [null |-> TRUE]
Num(n) == [num |-> n]
Str(s) == [str |-> s]
Id(n) == [id |-> n]
Obj(pairs) == [obj |-> pairs]
Pair(key, val) == [k |-> key, v |-> val]

IsObj(v) == DOMAIN v = {"obj"}

\* obj[key], or Null when the object has no such key (a falsy undefined).
Get(o, key) ==
  IF \E i \in 1..Len(o.obj) : o.obj[i].k = key
  THEN o.obj[CHOOSE i \in 1..Len(o.obj) : o.obj[i].k = key].v
  ELSE Null

RECURSIVE Flatten(_)
Flatten(ss) == IF ss = <<>> THEN <<>> ELSE Head(ss) \o Flatten(Tail(ss))

\* JSON.stringify: the text of a value as a sequence of tokens.  An object is
\* written as its keys and values in insertion order between braces.
RECURSIVE JSONStringify(_)
JSONStringify(v) ==
  IF IsObj(v)
  THEN <<[p |-> "{"]>>
       \o Flatten([i \in 1..Len(v.obj) |->
                     <<[key |-> v.obj[i].k]>> \o JSONStringify(v.obj[i].v)])
       \o <<[p |-> "}"]>>
  ELSE <<v>>

\* JSON.parse of the text of a flat object (every payload this program
\* stores is flat): the keys come back in the order of the text.
JSONParse(text) ==
  Obj([i \in 1..((Len(text) - 2) \div 2) |->
         Pair(text[2 * i].key, text[2 * i + 1])])

\* createHash("sha256").update(data).digest("hex"), collision free: the
\* digest determines the text it was computed from.
generateHash(data) == [hex |-> data]

\* ------------------------------------------------------------------ state
VARIABLES
  emotionalState,  \* table EmotionalState: rows [id, intensity, valence, arousal]
  nssiEvent,       \* table NssiEvent: rows [id, severity]
  vaultEntry,      \* table VaultEntry: rows [kind, payload, sha256, prevHash, chainIndex]
  nextId,          \* the next generated record id
  result,          \* what the latest operation run to completion returned
  pc,              \* per handler: where it is between its awaits
  local,           \* per handler: the record it created and the tail it read
  ret,             \* per handler: its latest call, its outcome, and whether it was a retry
  staleInsert,     \* history: an entry was stored although the tail had moved
  cveUsed,         \* history: createVaultEntry wrote into the current chain
  tamper,          \* history: the direct storage edit that was made, if any
  structA, structB,  \* two hashed structures with the same key/value pairs
  digestA, digestB,  \* their digests, once computed
  erasePc,         \* the deleteAllData handler: where it is between its awaits
  erasedLen,       \* history: entries the latest deleteAllData removed, -1 if none ran
  scan,            \* the getVaultStatus handler: its position, the rows it read, and
                   \* (history) how many entries were appended during its last pass
  memRecords,      \* MemStorage: the emotionalStates and nssiEvents maps, in insertion order
  memVaultEntries, \* MemStorage: the vaultEntries map, in insertion order
  now,             \* the clock new Date() reads, in milliseconds
  sessionLog,      \* table SessionLog: rows [id, durationSec]
  analyticsPattern,  \* table AnalyticsPattern: rows [id, name]
  userSettings     \* table UserSettings: the row of the local user

vars == <<emotionalState, nssiEvent, vaultEntry, nextId, result, pc, local, ret,
          staleInsert, cveUsed, tamper, structA, structB, digestA, digestB,
          erasePc, erasedLen, scan, memRecords, memVaultEntries, now,
          sessionLog, analyticsPattern, userSettings>>

dbVars == <<emotionalState, nssiEvent, vaultEntry, nextId>>
procVars == <<pc, local, ret, staleInsert>>
hashVars == <<structA, structB, digestA, digestB>>
passVars == <<erasePc, erasedLen, scan>>
memVars == <<memRecords, memVaultEntries, now>>
sideVars == <<sessionLog, analyticsPattern, userSettings>>

\* getUserId: the id of the one local user.
userId == Str("u1")

\* ---------------------------------------------------------- table access
\* Mutant of findLastVault: the rows are ordered by ascending chainIndex.
findFirstVault(v) == {e \in v : \A f \in v : f.chainIndex >= e.chainIndex}

\* db.vaultEntry.findFirst({orderBy: {chainIndex: "desc"}}): the row with
\* the highest chainIndex, as a set that is empty when the table is.
findLastVault(v) == {e \in v : \A f \in v : f.chainIndex <= e.chainIndex}

\* Mutant of lastSha256: reads the tail's prevHash column instead of its
\* sha256.
lastPrevHash(lastVault) ==
  IF lastVault = {} THEN Null ELSE (CHOOSE e \in lastVault : TRUE).prevHash

\* lastVault?.sha256 ?? null
lastSha256(lastVault) ==
  IF lastVault = {} THEN Null ELSE (CHOOSE e \in lastVault : TRUE).sha256

\* Mutant of nextChainIndex: the increment is forgotten.
nextChainIndexNoIncrement(lastVault) ==
  IF lastVault = {} THEN -1 ELSE (CHOOSE e \in lastVault : TRUE).chainIndex

\* (lastVault?.chainIndex ?? -1) + 1
nextChainIndex(lastVault) ==
  (IF lastVault = {} THEN -1 ELSE (CHOOSE e \in lastVault : TRUE).chainIndex) + 1

\* Mutant of findManyAsc: a page of at most two rows.
RECURSIVE findManyAscTake2(_)
findManyAscTake2(v) ==
  IF v = {} THEN <<>>
  ELSE IF Cardinality(v) > 2
       THEN findManyAscTake2(
              v \ {CHOOSE x \in v : \A y \in v : x.chainIndex >= y.chainIndex})
       ELSE LET e == CHOOSE x \in v : \A y \in v : x.chainIndex <= y.chainIndex
            IN <<e>> \o findManyAscTake2(v \ {e})

\* Mutant of findManyAsc: the rows come back newest first.
RECURSIVE findManyDesc(_)
findManyDesc(v) ==
  IF v = {} THEN <<>>
  ELSE LET e == CHOOSE x \in v : \A y \in v : x.chainIndex >= y.chainIndex
       IN <<e>> \o findManyDesc(v \ {e})

\* db.vaultEntry.findMany({orderBy: {chainIndex: "asc"}})
RECURSIVE findManyAsc(_)
findManyAsc(v) ==
  IF v = {} THEN <<>>
  ELSE LET e == CHOOSE x \in v : \A y \in v : x.chainIndex <= y.chainIndex
       IN <<e>> \o findManyAsc(v \ {e})

\* The unique index VaultEntry_userId_chainIndex_key: an insert of a row
\* whose chainIndex is taken is rejected.
uniqueChainIndex(v, row) == \A e \in v : e.chainIndex # row.chainIndex

\* Mutant of insertVault: the table has no unique index on chainIndex.
insertVaultUnchecked(v, row) == v \cup {row}

\* db.vaultEntry.create: the table after the insert; a rejected insert
\* (error P2002, which the caller does not catch) leaves it as it was.
insertVault(v, row) == IF uniqueChainIndex(v, row) THEN v \cup {row} ELSE v

\* Mutant of deleteMany: the where clause matches no row.
deleteManyNoMatch(table) == table

\* db.<table>.deleteMany({where: {userId}}): the table after the delete,
\* for the one user of the partition.
deleteMany(table) == {}

\* ------------------------------------------------------- chain building
\* Mutant of stateVaultData: the payload leaves out the record id.
stateVaultDataNoId(state, lastVault) ==
  Obj(<<Pair("userId", userId),
        Pair("kind", Str("state")),
        Pair("payload", Obj(<<Pair("valence", Num(state.valence)),
                              Pair("arousal", Num(state.arousal))>>)),
        Pair("prevHash", lastSha256(lastVault)),
        Pair("chainIndex", Num(nextChainIndex(lastVault)))>>)

\* vaultData of createEmotionalState.
stateVaultData(state, lastVault) ==
  Obj(<<Pair("userId", userId),
        Pair("kind", Str("state")),
        Pair("payload", Obj(<<Pair("id", Id(state.id)),
                              Pair("valence", Num(state.valence)),
                              Pair("arousal", Num(state.arousal))>>)),
        Pair("prevHash", lastSha256(lastVault)),
        Pair("chainIndex", Num(nextChainIndex(lastVault)))>>)

\* vaultData of createNssiEvent.
nssiVaultData(event, lastVault) ==
  Obj(<<Pair("userId", userId),
        Pair("kind", Str("nssi")),
        Pair("payload", Obj(<<Pair("id", Id(event.id)),
                              Pair("severity", Num(event.severity))>>)),
        Pair("prevHash", lastSha256(lastVault)),
        Pair("chainIndex", Num(nextChainIndex(lastVault)))>>)

\* Mutant of vaultRow: the prevHash column is left empty.
vaultRowNoPrevHash(vaultData, lastVault) ==
  [kind |-> Get(vaultData, "kind").str,
   payload |-> JSONStringify(Get(vaultData, "payload")),
   prevHash |-> Null,
   chainIndex |-> Get(vaultData, "chainIndex").num,
   sha256 |-> generateHash(JSONStringify(vaultData))]

\* The row db.vaultEntry.create is given by the two create operations.
vaultRow(vaultData, lastVault) ==
  [kind |-> Get(vaultData, "kind").str,
   payload |-> JSONStringify(Get(vaultData, "payload")),
   prevHash |-> lastSha256(lastVault),
   chainIndex |-> Get(vaultData, "chainIndex").num,
   sha256 |-> generateHash(JSONStringify(vaultData))]

\* The row db.vaultEntry.create is given by createVaultEntry: the digest is
\* the caller's dataHash, the payload holds the referenceId alone.
createVaultEntryRow(insertEntry, lastVault) ==
  [kind |-> insertEntry.entryType,
   payload |-> JSONStringify(Obj(<<Pair("referenceId", Id(insertEntry.referenceId))>>)),
   prevHash |-> lastSha256(lastVault),
   chainIndex |-> nextChainIndex(lastVault),
   sha256 |-> insertEntry.dataHash]

\* --------------------------------------------------------- verification
\* vaultData of getVaultStatus, rebuilt from a stored row and the running
\* previous digest.
statusVaultData(entry, prevHash) ==
  Obj(<<Pair("userId", userId),
        Pair("kind", Str(entry.kind)),
        Pair("payload", JSONParse(entry.payload)),
        Pair("prevHash", prevHash),
        Pair("chainIndex", Num(entry.chainIndex))>>)

\* The loop of getVaultStatus from position i (1-based) on.  stoppedAt is
\* the 0-based position of the entry the loop broke at, or the number of
\* entries when it ran to the end.
RECURSIVE verifyFrom(_, _, _)
verifyFrom(entries, i, prevHash) ==
  IF i > Len(entries)
  THEN [chainIntegrity |-> TRUE, stoppedAt |-> Len(entries)]
  ELSE LET entry == entries[i]
           hash == generateHash(JSONStringify(statusVaultData(entry, prevHash)))
       IN IF hash # entry.sha256
          THEN [chainIntegrity |-> FALSE, stoppedAt |-> i - 1]
          ELSE verifyFrom(entries, i + 1, entry.sha256)

\* Mutant of verifyLoop: only the links are compared, from the second entry
\* on, and no digest is recomputed (as MemStorage.getVaultStatus does).
verifyLoopLinksOnly(entries) ==
  IF \E i \in 2..Len(entries) : entries[i].prevHash # entries[i - 1].sha256
  THEN [chainIntegrity |-> FALSE,
        stoppedAt |-> (CHOOSE i \in 2..Len(entries) :
                         /\ entries[i].prevHash # entries[i - 1].sha256
                         /\ \A j \in 2..(i - 1) :
                              entries[j].prevHash = entries[j - 1].sha256) - 1]
  ELSE [chainIntegrity |-> TRUE, stoppedAt |-> Len(entries)]

\* Mutant of verifyLoop: only the newest entry is recomputed, against the
\* stored digest of the entry before it.
verifyLoopTailOnly(entries) ==
  IF entries = <<>> THEN [chainIntegrity |-> TRUE, stoppedAt |-> 0]
  ELSE verifyFrom(entries, Len(entries),
                  IF Len(entries) = 1 THEN Null
                  ELSE entries[Len(entries) - 1].sha256)

verifyLoop(entries) == verifyFrom(entries, 1, Null)

\* What getVaultStatus returns for the table v.
vaultStatus(v) ==
  LET entries == findManyAsc(v)
  IN [op |-> "getVaultStatus",
      totalEntries |-> Len(entries),
      encryptedEntries |-> Len(entries),
      lastHash |-> IF entries = <<>> THEN Str("") ELSE entries[Len(entries)].sha256,
      chainIntegrity |-> verifyLoop(entries).chainIntegrity]

\* ----------------------------------------------------------- projection
\* payload.id of a stored entry, Null when the payload has no such key.
payloadId(e) == Get(JSONParse(e.payload), "id")

\* Mutant of findUnique: the where clause is dropped.
findUniqueAny(table, id) == table

\* db.<table>.findUnique({where: {id}}): the row with that id, as a set
\* that is empty when there is none.
findUnique(table, id) == {r \in table : Id(r.id) = id}

\* contentSummary of getVaultEntries for one entry: the fields of the
\* record payload.id names in the table of the entry's kind, null when the
\* kind is neither, payload.id is missing, or no such record is found.
\* (The constant note and the column triggerType are left out.)
contentSummary(entry, states, events) ==
  IF entry.kind = "state" /\ payloadId(entry) # Null
  THEN LET state == findUnique(states, payloadId(entry))
       IN IF state # {}
          THEN LET st == CHOOSE r \in state : TRUE
               IN [summary |-> [intensity |-> st.intensity, valence |-> st.valence,
                                arousal |-> st.arousal]]
          ELSE Null
  ELSE IF entry.kind = "nssi" /\ payloadId(entry) # Null
  THEN LET event == findUnique(events, payloadId(entry))
       IN IF event # {}
          THEN [summary |-> [severity |-> (CHOOSE r \in event : TRUE).severity]]
          ELSE Null
  ELSE Null

\* Mutant of enrichedEntry: the digest is computed again from the payload
\* instead of being read from the row.
enrichedEntryRehashed(entry, states, events) ==
  [dataHash |-> generateHash(entry.payload),
   entryType |-> entry.kind,
   referenceId |-> IF payloadId(entry) # Null THEN payloadId(entry) ELSE Str(""),
   previousHash |-> entry.prevHash,
   contentSummary |-> contentSummary(entry, states, events)]

\* The EnrichedVaultEntry getVaultEntries returns for one entry.
enrichedEntry(entry, states, events) ==
  [dataHash |-> entry.sha256,
   entryType |-> entry.kind,
   referenceId |-> IF payloadId(entry) # Null THEN payloadId(entry) ELSE Str(""),
   previousHash |-> entry.prevHash,
   contentSummary |-> contentSummary(entry, states, events)]

\* ------------------------------------------------------- initial state
NoLocal == [kind |-> "none", rec |-> {}, lastVault |-> {}]
NoRet == [status |-> "none", chainIndex |-> -1, startLen |-> -1,
          op |-> "none", retry |-> FALSE]
NoTamper == [kind |-> "none", k |-> -1, n |-> -1, field |-> "none"]

\* The five key/value pairs of a vaultData structure, in the order the
\* source writes them.
samplePairs ==
  <<Pair("userId", userId),
    Pair("kind", Str("state")),
    Pair("payload", Obj(<<Pair("id", Id(1)), Pair("valence", Num(-20)),
                          Pair("arousal", Num(70))>>)),
    Pair("prevHash", Null),
    Pair("chainIndex", Num(0))>>

InitDb ==
  /\ emotionalState = {}
  /\ nssiEvent = {}
  /\ vaultEntry = {}
  /\ nextId = 1
  /\ result = [op |-> "none"]

InitProcs ==
  /\ pc = [p \in Procs |-> "idle"]
  /\ local = [p \in Procs |-> NoLocal]
  /\ ret = [p \in Procs |-> NoRet]
  /\ staleInsert = FALSE

InitHistory ==
  /\ cveUsed = FALSE
  /\ tamper = NoTamper

InitHash ==
  /\ structA = Obj(samplePairs)
  /\ structB = Obj(samplePairs)
  /\ digestA = Null
  /\ digestB = Null

NoScan == [pc |-> "idle", entries |-> <<>>, appended |-> 0]

InitPass ==
  /\ erasePc = "idle"
  /\ erasedLen = -1
  /\ scan = NoScan

\* new MemStorage(): empty maps.
InitMem ==
  /\ memRecords = <<>>
  /\ memVaultEntries = <<>>
  /\ now = 0

\* The column defaults of table UserSettings.
DefaultSettings ==
  [theme |-> "system", privacyMode |-> TRUE, dataRetentionDays |-> 365,
   exportFormat |-> "json"]

InitSide ==
  /\ sessionLog = {}
  /\ analyticsPattern = {}
  /\ userSettings = DefaultSettings

\* The state after the schema is migrated and the user row exists: every
\* table of the partition is empty.
Init ==
  InitDb /\ InitProcs /\ InitHistory /\ InitHash /\ InitPass /\ InitMem /\ InitSide

\* ------------------------------------------- operations, run one at a time
\* Guards shared by the appends: the bounds of the model.
\* The seed script has run: its demo session is stored.
seeded == \E log \in sessionLog : log.note = Str("Demo session")
\* Record ids and vault entries the seed script uses up.
SeedIds == 5
SeedEntries == 4
roomForRecord == nextId <= MaxRecords + (IF seeded THEN SeedIds ELSE 0)
roomForEntry ==
  Cardinality(vaultEntry) < MaxChain + (IF seeded THEN SeedEntries ELSE 0)

\* createEmotionalState run from call to return with no other operation in
\* between.  The record is written first; when the vault insert is rejected
\* the call throws and the record stays.
createEmotionalState(insertState) ==
  /\ roomForRecord /\ roomForEntry
  /\ LET state == [id |-> nextId, intensity |-> insertState.intensity,
                   valence |-> insertState.valence, arousal |-> insertState.arousal]
         lastVault == findLastVault(vaultEntry)
         row == vaultRow(stateVaultData(state, lastVault), lastVault)
     IN /\ emotionalState' = emotionalState \cup {state}
        /\ vaultEntry' = insertVault(vaultEntry, row)
        /\ result' = IF uniqueChainIndex(vaultEntry, row)
                     THEN [op |-> "createEmotionalState", value |-> state]
                     ELSE [op |-> "createEmotionalState", error |-> "P2002"]
  /\ nextId' = nextId + 1
  /\ UNCHANGED <<nssiEvent, procVars, cveUsed, tamper, hashVars, passVars, memVars, sideVars>>

\* createNssiEvent run from call to return.
createNssiEvent(insertEvent) ==
  /\ roomForRecord /\ roomForEntry
  /\ LET event == [id |-> nextId, severity |-> insertEvent.severity]
         lastVault == findLastVault(vaultEntry)
         row == vaultRow(nssiVaultData(event, lastVault), lastVault)
     IN /\ nssiEvent' = nssiEvent \cup {event}
        /\ vaultEntry' = insertVault(vaultEntry, row)
        /\ result' = IF uniqueChainIndex(vaultEntry, row)
                     THEN [op |-> "createNssiEvent", value |-> event]
                     ELSE [op |-> "createNssiEvent", error |-> "P2002"]
  /\ nextId' = nextId + 1
  /\ UNCHANGED <<emotionalState, procVars, cveUsed, tamper, hashVars, passVars, memVars, sideVars>>

\* createVaultEntry run from call to return.
createVaultEntry(insertEntry) ==
  /\ roomForEntry
  /\ LET lastVault == findLastVault(vaultEntry)
         row == createVaultEntryRow(insertEntry, lastVault)
     IN /\ vaultEntry' = insertVault(vaultEntry, row)
        /\ result' = IF uniqueChainIndex(vaultEntry, row)
                     THEN [op |-> "createVaultEntry",
                           value |-> [dataHash |-> row.sha256, entryType |-> row.kind,
                                      referenceId |-> insertEntry.referenceId,
                                      previousHash |-> row.prevHash]]
                     ELSE [op |-> "createVaultEntry", error |-> "P2002"]
        /\ cveUsed' = (cveUsed \/ uniqueChainIndex(vaultEntry, row))
  /\ UNCHANGED <<emotionalState, nssiEvent, nextId, procVars, tamper, hashVars, passVars, memVars, sideVars>>

\* getVaultStatus: reads the chain and verifies it.
getVaultStatus ==
  /\ result' = vaultStatus(vaultEntry)
  /\ UNCHANGED <<dbVars, procVars, cveUsed, tamper, hashVars, passVars, memVars, sideVars>>

\* getLastVaultHash: lastEntry?.sha256 ?? null.
getLastVaultHash ==
  /\ result' = [op |-> "getLastVaultHash",
                value |-> lastSha256(findLastVault(vaultEntry))]
  /\ UNCHANGED <<dbVars, procVars, cveUsed, tamper, hashVars, passVars, memVars, sideVars>>

\* getVaultEntries: the entries in chainIndex order, each joined with the
\* record it names.
getVaultEntries ==
  /\ result' = [op |-> "getVaultEntries",
                value |-> LET entries == findManyAsc(vaultEntry)
                          IN [i \in 1..Len(entries) |->
                                enrichedEntry(entries[i], emotionalState, nssiEvent)]]
  /\ UNCHANGED <<dbVars, procVars, cveUsed, tamper, hashVars, passVars, memVars, sideVars>>

\* deleteAllData run from call to return: every table of the partition is
\* emptied (analytics patterns and session logs are not modelled).
deleteAllData ==
  /\ vaultEntry' = deleteMany(vaultEntry)
  /\ nssiEvent' = deleteMany(nssiEvent)
  /\ emotionalState' = deleteMany(emotionalState)
  /\ cveUsed' = FALSE
  /\ analyticsPattern' = deleteMany(analyticsPattern)
  /\ sessionLog' = deleteMany(sessionLog)
  /\ erasedLen' = Cardinality(vaultEntry)
  /\ result' = [op |-> "deleteAllData"]
  /\ UNCHANGED <<nextId, procVars, tamper, hashVars, erasePc, scan, memVars, userSettings>>

\* The inputs the operations are called with.
InsertStates ==
  [intensity : Intensities, valence : Valences, arousal : Arousals]
InsertEvents == [severity : Severities]
\* A caller-chosen digest that is not the digest of any vaultData.
ForeignHash == generateHash(<<Str("abc")>>)
InsertEntries ==
  [entryType : {"state", "session"},
   referenceId : {1},
   dataHash : {ForeignHash}]

SeqNext ==
  \/ \E insertState \in InsertStates : createEmotionalState(insertState)
  \/ \E insertEvent \in InsertEvents : createNssiEvent(insertEvent)
  \/ \E insertEntry \in InsertEntries : createVaultEntry(insertEntry)
  \/ getVaultStatus
  \/ getLastVaultHash
  \/ getVaultEntries
  \/ deleteAllData

\* The public storage operations, one at a time, from the empty partition.
SeqSpec == Init /\ [][SeqNext]_vars

\* ------------------------------------------------- claims under SeqSpec
\* The domain records of both tables.
domainRecords == emotionalState \cup nssiEvent

\* The table a vault entry of the given kind refers to, of the two tables
\* given.
tableOf(kind, states, events) ==
  CASE kind = "state" -> states
    [] kind = "nssi" -> events
    [] OTHER -> {}

\* The id of the record an entry refers to: payload.id as the create
\* operations write it, else payload.referenceId as createVaultEntry does.
referencedId(e) ==
  IF payloadId(e) # Null THEN payloadId(e)
  ELSE Get(JSONParse(e.payload), "referenceId")

\* The records of the entry's kind that the entry refers to.
referencedRecords(e, states, events) ==
  {r \in tableOf(e.kind, states, events) : Id(r.id) = referencedId(e)}

IsPrefix(a, b) == Len(a) <= Len(b) /\ \A i \in 1..Len(a) : a[i] = b[i]

ChainIndexes(v) == {e.chainIndex : e \in v}

\* The stored digest of every entry equals the digest getVaultStatus
\* recomputes for it from the stored kind, payload and chainIndex and the
\* stored digest of the entry before it.
digestsRecomputable(v) ==
  LET entries == findManyAsc(v)
  IN \A i \in 1..Len(entries) :
       entries[i].sha256 =
         generateHash(JSONStringify(statusVaultData(
           entries[i], IF i = 1 THEN Null ELSE entries[i - 1].sha256)))

\* C1: after any sequence of createEmotionalState / createNssiEvent calls,
\* one at a time, on an empty partition, the stored chainIndex values are
\* exactly 0..N-1 and getVaultStatus returns chainIntegrity = true.
C1_AppendsContiguousAndValid ==
  ~cveUsed =>
    /\ ChainIndexes(vaultEntry) = 0..(Cardinality(vaultEntry) - 1)
    /\ Cardinality(vaultEntry) = Cardinality(emotionalState) + Cardinality(nssiEvent)
    /\ vaultStatus(vaultEntry).chainIntegrity
    /\ result.op = "getVaultStatus" => result.chainIntegrity

\* C1 witness: three appends of both kinds were made and verified.
C1_Witness ==
  /\ ~cveUsed
  /\ Cardinality(vaultEntry) >= 3
  /\ \E e, f \in vaultEntry : e.kind = "state" /\ f.kind = "nssi"
  /\ result.op = "getVaultStatus"

\* C7: after any sequence of public storage operations, every stored entry
\* with chainIndex > 0 has prevHash equal to the sha256 of the stored entry
\* with chainIndex - 1, and the entry with chainIndex 0 has prevHash null.
C7_PrevHashLinksToPredecessor ==
  \A e \in vaultEntry :
    IF e.chainIndex = 0
    THEN e.prevHash = Null
    ELSE \E f \in vaultEntry :
           f.chainIndex = e.chainIndex - 1 /\ e.prevHash = f.sha256

\* C7 witness: a chain of three entries built by createVaultEntry and a
\* create operation together, in a partition that was erased before.
C7_Witness ==
  /\ cveUsed
  /\ \E e \in vaultEntry : e.chainIndex = 2
  /\ \E e \in vaultEntry : e.kind = "nssi"
  /\ Cardinality(emotionalState) + Cardinality(nssiEvent) < nextId - 1

\* C9: every entry written by a public append operation, createVaultEntry
\* with an arbitrary dataHash included, stores the digest getVaultStatus
\* recomputes, so the chain verifies after any sequence of public appends.
C9_PublicAppendsRecomputable ==
  /\ digestsRecomputable(vaultEntry)
  /\ vaultStatus(vaultEntry).chainIntegrity

\* C15: when deleteAllData has completed, whatever the length of the chain
\* it erased, the vault is empty, and the next append that is stored has
\* chainIndex 0 and prevHash null.
C15_EraseRestartsAtZero ==
  [][/\ result'.op = "deleteAllData" => vaultEntry' = {}
     /\ (erasedLen >= 0 /\ vaultEntry = {} /\ vaultEntry' # {}) =>
          \A e \in vaultEntry' : e.chainIndex = 0 /\ e.prevHash = Null]_vars

\* C15 witness: a chain of two or more entries was erased and a
\* createNssiEvent call then appended the first entry of the new chain.
C15_Witness ==
  /\ erasedLen >= 2
  /\ Cardinality(vaultEntry) = 1
  /\ result.op = "createNssiEvent"
  /\ \E e \in vaultEntry : e.kind = "nssi" /\ e.chainIndex = 0

\* C17: the ledger is append-only: across every storage operation other
\* than deleteAllData, the entries stored before, in chainIndex order with
\* all their fields, are a prefix of the entries stored after.
C17_AppendOnly ==
  [][result'.op # "deleteAllData" =>
       IsPrefix(findManyAsc(vaultEntry), findManyAsc(vaultEntry'))]_vars

\* C17 witness: a chain of three entries, written by createVaultEntry and
\* the create operations with no erasure ever run, was listed.
C17_Witness ==
  /\ erasedLen = -1
  /\ cveUsed
  /\ Cardinality(vaultEntry) = 3
  /\ result.op = "getVaultEntries"

\* Every record has exactly one entry, of the record's kind, naming it, and
\* every entry names a record.
oneEntryPerRecord(states, events, vault) ==
  /\ Cardinality(vault) = Cardinality(states) + Cardinality(events)
  /\ \A r \in states : \E e \in vault :
       /\ e.kind = "state" /\ payloadId(e) = Id(r.id)
       /\ \A f \in vault : payloadId(f) = Id(r.id) => f = e
  /\ \A r \in events : \E e \in vault :
       /\ e.kind = "nssi" /\ payloadId(e) = Id(r.id)
       /\ \A f \in vault : payloadId(f) = Id(r.id) => f = e

\* The entry a create call of the given kind appended for the record it
\* returned: exactly one new entry, of that kind, whose payload id is the
\* record's id.
appendedOneFor(kind, id, before, after) ==
  \E e \in after \ before :
    /\ after = before \cup {e}
    /\ e.kind = kind
    /\ payloadId(e) = Id(id)

\* C18: each successful createEmotionalState / createNssiEvent call appends
\* exactly one entry, of the record's kind and with the new record's id as
\* payload id; after any sequence of such calls on an empty partition the
\* entries are as many as the records and no record has two entries.
C18_OneEntryPerCreate ==
  [][/\ (result'.op = "createEmotionalState" /\ "value" \in DOMAIN result') =>
          appendedOneFor("state", result'.value.id, vaultEntry, vaultEntry')
     /\ (result'.op = "createNssiEvent" /\ "value" \in DOMAIN result') =>
          appendedOneFor("nssi", result'.value.id, vaultEntry, vaultEntry')
     /\ ~cveUsed' => oneEntryPerRecord(emotionalState', nssiEvent', vaultEntry')]_vars

\* C18 witness: three creates of both kinds were made on an empty
\* partition, the last one a createNssiEvent.
C18_Witness ==
  /\ ~cveUsed
  /\ Cardinality(vaultEntry) = 3
  /\ \E e \in vaultEntry : e.kind = "state"
  /\ result.op = "createNssiEvent"
  /\ "value" \in DOMAIN result

\* C20: getVaultEntries returns every entry of kind state or nssi whose
\* referenced record exists, whichever public append operation wrote it,
\* with a non-null contentSummary and the record's id as referenceId.
C20_ExistingRecordSummarised ==
  result.op = "getVaultEntries" =>
    LET entries == findManyAsc(vaultEntry)
    IN \A i \in 1..Len(entries) :
         (/\ entries[i].kind \in {"state", "nssi"}
          /\ referencedRecords(entries[i], emotionalState, nssiEvent) # {})
         => /\ result.value[i].contentSummary # Null
            /\ result.value[i].referenceId = referencedId(entries[i])

\* C21: getLastVaultHash returns the sha256 of the stored entry with the
\* highest chainIndex, or null when the chain is empty, and changes no
\* stored state.
C21_LastHashIsTailDigest ==
  [][result'.op = "getLastVaultHash" =>
       /\ UNCHANGED dbVars
       /\ IF vaultEntry = {}
          THEN result'.value = Null
          ELSE \E t \in vaultEntry :
                 /\ \A f \in vaultEntry : f.chainIndex <= t.chainIndex
                 /\ result'.value = t.sha256]_vars

\* C21 witness: getLastVaultHash was called on a chain of three entries.
C21_Witness ==
  /\ result.op = "getLastVaultHash"
  /\ result.value # Null
  /\ Cardinality(vaultEntry) = 3

\* --------------------------------------- concurrent request handlers
\* Each handler runs createEmotionalState or createNssiEvent; the awaits
\* of the operation are the points where another handler may run.  No lock
\* or transaction spans them.

\* History: a call is a retry when the handler's last call of the same
\* operation ended with its vault insert rejected (the handlers repeat the
\* same request body).
isRetry(last, op) == last.status = "error" /\ last.op = op

\* db.emotionalState.create of createEmotionalState: the call starts and
\* the record is persisted.
stateCreate(p, insertState) ==
  /\ pc[p] = "idle"
  /\ roomForRecord
  /\ LET state == [id |-> nextId, intensity |-> insertState.intensity,
                   valence |-> insertState.valence, arousal |-> insertState.arousal]
     IN /\ emotionalState' = emotionalState \cup {state}
        /\ local' = [local EXCEPT ![p] = [kind |-> "state", rec |-> {state},
                                          lastVault |-> {}]]
  /\ nextId' = nextId + 1
  /\ ret' = [ret EXCEPT ![p] = [status |-> "running", chainIndex |-> -1,
                                startLen |-> Cardinality(vaultEntry),
                                op |-> "state", retry |-> isRetry(ret[p], "state")]]
  /\ pc' = [pc EXCEPT ![p] = "findFirst"]
  /\ UNCHANGED <<nssiEvent, vaultEntry, result, staleInsert, cveUsed, tamper, hashVars, passVars, memVars, sideVars>>

\* db.nssiEvent.create of createNssiEvent.
nssiCreate(p, insertEvent) ==
  /\ pc[p] = "idle"
  /\ roomForRecord
  /\ LET event == [id |-> nextId, severity |-> insertEvent.severity]
     IN /\ nssiEvent' = nssiEvent \cup {event}
        /\ local' = [local EXCEPT ![p] = [kind |-> "nssi", rec |-> {event},
                                          lastVault |-> {}]]
  /\ nextId' = nextId + 1
  /\ ret' = [ret EXCEPT ![p] = [status |-> "running", chainIndex |-> -1,
                                startLen |-> Cardinality(vaultEntry),
                                op |-> "nssi", retry |-> isRetry(ret[p], "nssi")]]
  /\ pc' = [pc EXCEPT ![p] = "findFirst"]
  /\ UNCHANGED <<emotionalState, vaultEntry, result, staleInsert, cveUsed, tamper, hashVars, passVars, memVars, sideVars>>

\* db.vaultEntry.findFirst of either operation: the handler reads the tail.
findFirst(p) ==
  /\ pc[p] = "findFirst"
  /\ local' = [local EXCEPT ![p].lastVault = findLastVault(vaultEntry)]
  /\ pc' = [pc EXCEPT ![p] = "vaultCreate"]
  /\ UNCHANGED <<dbVars, result, ret, staleInsert, cveUsed, tamper, hashVars, passVars, memVars, sideVars>>

\* The row a handler builds from its record and the tail it read.
handlerRow(l) ==
  LET rec == CHOOSE r \in l.rec : TRUE
  IN IF l.kind = "state"
     THEN vaultRow(stateVaultData(rec, l.lastVault), l.lastVault)
     ELSE vaultRow(nssiVaultData(rec, l.lastVault), l.lastVault)

\* db.vaultEntry.create of either operation, and the return.  A rejected
\* insert throws out of the operation: nothing is retried or undone.
vaultCreate(p) ==
  /\ pc[p] = "vaultCreate"
  /\ LET row == handlerRow(local[p])
         stored == insertVault(vaultEntry, row) # vaultEntry
     IN /\ vaultEntry' = insertVault(vaultEntry, row)
        /\ ret' = [ret EXCEPT ![p].status = IF stored THEN "ok" ELSE "error",
                              ![p].chainIndex = IF stored THEN row.chainIndex ELSE -1]
        /\ staleInsert' = (staleInsert \/
                           (stored /\ local[p].lastVault # findLastVault(vaultEntry)))
  /\ pc' = [pc EXCEPT ![p] = "idle"]
  /\ local' = [local EXCEPT ![p] = NoLocal]
  /\ UNCHANGED <<emotionalState, nssiEvent, nextId, result, cveUsed, tamper, hashVars, passVars, memVars, sideVars>>

\* The concurrent handlers are all given the same request bodies: what
\* separates their entries is the record id and the tail they read.
ConcInsertStates == {[intensity |-> 62, valence |-> -20, arousal |-> 70]}
ConcInsertEvents == {[severity |-> 2]}

Next ==
  \/ \E p \in Procs, insertState \in ConcInsertStates : stateCreate(p, insertState)
  \/ \E p \in Procs, insertEvent \in ConcInsertEvents : nssiCreate(p, insertEvent)
  \/ \E p \in Procs : findFirst(p)
  \/ \E p \in Procs : vaultCreate(p)

\* Handlers running createEmotionalState / createNssiEvent concurrently
\* on one partition, from the empty partition.
Spec == Init /\ [][Next]_vars

\* ---------------------------------------------------- claims under Spec
\* C2: two appends issued concurrently against a chain of N entries both
\* succeed, one stored with chainIndex N and the other with N+1.
C2_ConcurrentAppendsBothStored ==
  \A p, q \in Procs :
    (/\ p # q
     /\ ret[p].status \in {"ok", "error"}
     /\ ret[q].status \in {"ok", "error"}
     /\ ret[p].startLen = ret[q].startLen)
    => /\ ret[p].status = "ok"
       /\ ret[q].status = "ok"
       /\ {ret[p].chainIndex, ret[q].chainIndex}
            = {ret[p].startLen, ret[p].startLen + 1}

\* C3: under any interleaving of concurrent createEmotionalState /
\* createNssiEvent calls, no two stored entries share a chainIndex, no
\* entry was stored after the tail it was hashed against had moved, and
\* the stored chainIndex values are the contiguous run 0..N-1.
C3_NoDuplicateNoStaleTailContiguous ==
  /\ \A e, f \in vaultEntry : e.chainIndex = f.chainIndex => e = f
  /\ ~staleInsert
  /\ ChainIndexes(vaultEntry) = 0..(Cardinality(vaultEntry) - 1)

\* C3 witness: two handlers read the same tail; one insert was stored, the
\* other was rejected, and a later append extended the chain.
C3_Witness ==
  /\ \E p, q \in Procs :
       /\ ret[p].status = "error"
       /\ ret[q].status = "ok"
       /\ ret[p].startLen = ret[q].startLen
  /\ Cardinality(vaultEntry) >= 2

\* C11: when the vault-entry write of createEmotionalState / createNssiEvent
\* fails, no partial state is left: once the calls have returned, no domain
\* record exists without its vault entry and no vault entry without its
\* domain record.
C11_FailedVaultWriteLeavesNoPartialState ==
  (\A p \in Procs : pc[p] = "idle") =>
    /\ \A r \in domainRecords : \E e \in vaultEntry : payloadId(e) = Id(r.id)
    /\ \A e \in vaultEntry : \E r \in domainRecords : payloadId(e) = Id(r.id)

\* C13: a rejected vault-entry insert leaves the stored chain unchanged,
\* and a retry of the whole create operation that is stored has re-read the
\* tail: its entry has the tail's chainIndex + 1 and the tail's sha256 as
\* prevHash, and the chain verifies valid afterwards.
C13_RejectedInsertKeepsChainRetryExtendsTail ==
  [][\A p \in Procs :
       (pc[p] = "vaultCreate" /\ pc'[p] = "idle") =>
         IF ret'[p].status = "error"
         THEN vaultEntry' = vaultEntry
         ELSE ret[p].retry =>
                /\ \E t \in vaultEntry, e \in vaultEntry' :
                     /\ \A f \in vaultEntry : f.chainIndex <= t.chainIndex
                     /\ local[p].lastVault = {t}
                     /\ e.chainIndex = t.chainIndex + 1
                     /\ e.prevHash = t.sha256
                     /\ vaultEntry' = vaultEntry \cup {e}
                /\ vaultStatus(vaultEntry').chainIntegrity]_vars

\* C13 witness: a handler whose insert was rejected called the operation
\* again, and the retry was stored behind the entry that had won.
C13_Witness ==
  \E p \in Procs :
    /\ ret[p].retry
    /\ ret[p].status = "ok"
    /\ ret[p].chainIndex >= 1
    /\ Cardinality(domainRecords) > Cardinality(vaultEntry)

\* ------------------------------------ a domain-record write that fails
\* Mutant of afterRecordCreate: the rejection is swallowed and the
\* operation goes on to the vault append.
afterRecordCreateSwallowed(persisted) == "findFirst"

\* Where a handler is after `await db.emotionalState.create(...)` /
\* `await db.nssiEvent.create(...)`: a rejection propagates out of the
\* operation, which has no try/catch.
afterRecordCreate(persisted) == IF persisted THEN "findFirst" ELSE "idle"

\* db.emotionalState.create / db.nssiEvent.create of a call of either
\* operation rejected by the store (a constraint, a locked or full
\* database): no row is written.
recordCreateFails(p) ==
  /\ pc[p] = "idle"
  /\ ret' = [ret EXCEPT ![p] = [NoRet EXCEPT !.status = "recordError"]]
  /\ pc' = [pc EXCEPT ![p] = afterRecordCreate(FALSE)]
  /\ UNCHANGED <<dbVars, result, local, staleInsert, cveUsed, tamper, hashVars, passVars, memVars, sideVars>>

WriteNext ==
  \/ Next
  \/ \E p \in Procs : recordCreateFails(p)

\* The concurrent handlers, where the write of the domain record may fail.
WriteSpec == Init /\ [][WriteNext]_vars

\* C12: a vault entry is appended only after, and only if, the domain
\* record it references was persisted: every entry a step inserts refers
\* to a record of its kind that was in the table before the step, and a
\* handler is past its record write only while holding a persisted record.
C12_EntryOnlyAfterPersistedRecord ==
  [][/\ \A e \in vaultEntry' \ vaultEntry :
          \E r \in tableOf(e.kind, emotionalState, nssiEvent) : payloadId(e) = Id(r.id)
     /\ \A p \in Procs :
          pc'[p] \in {"findFirst", "vaultCreate"} =>
            /\ local'[p].rec # {}
            /\ local'[p].rec \subseteq
                 tableOf(local'[p].kind, emotionalState', nssiEvent')]_vars

\* C12 witness: one handler's record write failed and left nothing, while
\* the calls that persisted their records appended an entry each.
C12_Witness ==
  \E p, q \in Procs :
    /\ p # q
    /\ ret[p].status = "recordError"
    /\ ret[q].status = "ok"
    /\ Cardinality(vaultEntry) = Cardinality(domainRecords)
    /\ Cardinality(vaultEntry) >= 2

\* ------------------------------- deleteAllData among concurrent appends
\* deleteAllData awaits one deleteMany per table, with no transaction and
\* no lock shared with the create operations.  The deletes of the tables
\* that are not modelled (AnalyticsPattern, SessionLog) are left out.  One
\* erasure is run.

\* db.vaultEntry.deleteMany: the call starts and the vault is emptied.
eraseVault ==
  /\ erasePc = "idle"
  /\ vaultEntry' = deleteMany(vaultEntry)
  /\ erasedLen' = Cardinality(vaultEntry)
  /\ erasePc' = "analyticsPattern"
  /\ UNCHANGED <<emotionalState, nssiEvent, nextId, result, procVars, cveUsed,
                 tamper, hashVars, scan, memVars, sideVars>>

\* db.analyticsPattern.deleteMany.
eraseAnalyticsPatterns ==
  /\ erasePc = "analyticsPattern"
  /\ analyticsPattern' = deleteMany(analyticsPattern)
  /\ erasePc' = "nssiEvent"
  /\ UNCHANGED <<dbVars, result, procVars, cveUsed, tamper, hashVars, erasedLen,
                 scan, memVars, sessionLog, userSettings>>

\* db.nssiEvent.deleteMany.
eraseNssiEvents ==
  /\ erasePc = "nssiEvent"
  /\ nssiEvent' = deleteMany(nssiEvent)
  /\ erasePc' = "emotionalState"
  /\ UNCHANGED <<emotionalState, vaultEntry, nextId, result, procVars, cveUsed,
                 tamper, hashVars, erasedLen, scan, memVars, sideVars>>

\* db.emotionalState.deleteMany.
eraseEmotionalStates ==
  /\ erasePc = "emotionalState"
  /\ emotionalState' = deleteMany(emotionalState)
  /\ erasePc' = "sessionLog"
  /\ UNCHANGED <<nssiEvent, vaultEntry, nextId, result, procVars, cveUsed,
                 tamper, hashVars, erasedLen, scan, memVars, sideVars>>

\* db.sessionLog.deleteMany, and the return.
eraseSessionLogs ==
  /\ erasePc = "sessionLog"
  /\ sessionLog' = deleteMany(sessionLog)
  /\ erasePc' = "done"
  /\ UNCHANGED <<dbVars, result, procVars, cveUsed, tamper, hashVars, erasedLen,
                 scan, memVars, analyticsPattern, userSettings>>

EraseNext ==
  \/ Next
  \/ eraseVault
  \/ eraseAnalyticsPatterns
  \/ eraseNssiEvents
  \/ eraseEmotionalStates
  \/ eraseSessionLogs

\* The concurrent handlers and one DELETE /api/data/all.
EraseSpec == Init /\ [][EraseNext]_vars

\* C14: under any interleaving of deleteAllData with concurrent
\* createEmotionalState / createNssiEvent calls, once all have completed
\* the partition is either empty or holds a chain that starts at
\* chainIndex 0 with prevHash null and verifies valid.
C14_EraseExcludesAppends ==
  (erasePc = "done" /\ \A p \in Procs : pc[p] = "idle") =>
    \/ vaultEntry = {}
    \/ /\ \E e \in vaultEntry : e.chainIndex = 0 /\ e.prevHash = Null
       /\ ChainIndexes(vaultEntry) = 0..(Cardinality(vaultEntry) - 1)
       /\ vaultStatus(vaultEntry).chainIntegrity

\* ----------------------------- getVaultStatus among concurrent appends
\* getVaultStatus awaits one db.vaultEntry.findMany and then runs its loop
\* over the array returned, with no further await.

\* Mutant of statusSnapshot: the read starts behind the first row.
statusSnapshotSkipsFirst(v) ==
  findManyAsc({e \in v : \E f \in v : f.chainIndex < e.chainIndex})

\* The rows the findMany of getVaultStatus returns: those stored when the
\* query runs, in chainIndex order.
statusSnapshot(v) == findManyAsc(v)

\* What getVaultStatus returns for the rows it read.
statusOf(entries) ==
  [op |-> "getVaultStatus",
   totalEntries |-> Len(entries),
   encryptedEntries |-> Len(entries),
   lastHash |-> IF entries = <<>> THEN Str("") ELSE entries[Len(entries)].sha256,
   chainIntegrity |-> verifyLoop(entries).chainIntegrity]

\* db.vaultEntry.findMany of getVaultStatus: the pass starts and reads the
\* rows.
statusFindMany ==
  /\ scan.pc = "idle"
  /\ scan' = [pc |-> "loop", entries |-> statusSnapshot(vaultEntry), appended |-> 0]
  /\ UNCHANGED <<dbVars, result, procVars, cveUsed, tamper, hashVars, erasePc, erasedLen, memVars, sideVars>>

\* The loop of getVaultStatus and its return.
statusLoop ==
  /\ scan.pc = "loop"
  /\ result' = statusOf(scan.entries)
  /\ scan' = [pc |-> "idle", entries |-> <<>>,
              appended |-> Cardinality(vaultEntry) - Len(scan.entries)]
  /\ UNCHANGED <<dbVars, procVars, cveUsed, tamper, hashVars, erasePc, erasedLen, memVars, sideVars>>

\* The handler that appends while the pass runs.
Appender == 1

ScanNext ==
  \/ \E insertState \in ConcInsertStates : stateCreate(Appender, insertState)
  \/ \E insertEvent \in ConcInsertEvents : nssiCreate(Appender, insertEvent)
  \/ findFirst(Appender)
  \/ vaultCreate(Appender)
  \/ statusFindMany
  \/ statusLoop

\* A handler appending entries, split at its awaits, and
\* GET /api/vault/status.
ScanSpec == Init /\ [][ScanNext]_vars

\* C16: a getVaultStatus pass that runs while entries are appended never
\* returns chainIntegrity = false for a chain that is valid in every state
\* of the pass: the chain the appends build is valid in every state, the
\* rows a pass holds verify, and every pass returns chainIntegrity = true.
C16_PassVerifiesSnapshot ==
  /\ digestsRecomputable(vaultEntry)
  /\ scan.pc = "loop" => verifyLoop(scan.entries).chainIntegrity
  /\ result.op = "getVaultStatus" => result.chainIntegrity

\* C16 witness: a pass read a chain of one entry or more, entries were
\* appended before its loop ran, and it has returned.
C16_Witness ==
  /\ result.op = "getVaultStatus"
  /\ result.totalEntries >= 1
  /\ scan.pc = "idle"
  /\ scan.appended >= 1

\* ------------------------------------------- direct edits of the storage
\* Edits made to the tables behind the storage API (a SQL client on the
\* SQLite file).  One edit is made, on a chain built by createEmotionalState
\* and createNssiEvent; tamper records which.  An edit is not an operation
\* of the storage API: no result of an earlier operation describes the
\* tables after it.

\* The values a column of the VaultEntry row e can be overwritten with.
\* The unique index holds for direct edits too.
columnValues(v, e, field) ==
  CASE field = "kind" -> {"state", "nssi", "session"} \ {e.kind}
    [] field = "payload" ->
         {JSONStringify(Obj(<<Pair("id", Id(1)), Pair("severity", Num(9))>>)),
          JSONStringify(Obj(<<Pair("id", Id(1)), Pair("valence", Num(10)),
                              Pair("arousal", Num(70))>>))} \ {e.payload}
    [] field = "sha256" -> ({ForeignHash} \cup {f.sha256 : f \in v}) \ {e.sha256}
    [] field = "prevHash" ->
         ({Null, ForeignHash} \cup {f.sha256 : f \in v}) \ {e.prevHash}
    [] field = "chainIndex" ->
         {i \in 0..(MaxChain + 1) : \A f \in v : f.chainIndex # i}

Columns == {"kind", "payload", "sha256", "prevHash", "chainIndex"}

\* UPDATE VaultEntry SET field = value WHERE chainIndex = k.
tamperVaultField(k, field) ==
  /\ tamper.kind = "none"
  /\ \E e \in vaultEntry :
       /\ e.chainIndex = k
       /\ \E value \in columnValues(vaultEntry, e, field) :
            vaultEntry' = (vaultEntry \ {e}) \cup {[e EXCEPT ![field] = value]}
  /\ result' = [op |-> "none"]
  /\ tamper' = [kind |-> "field", k |-> k, n |-> Cardinality(vaultEntry),
                field |-> field]
  /\ UNCHANGED <<emotionalState, nssiEvent, nextId, procVars, cveUsed, hashVars, passVars, memVars, sideVars>>

\* DELETE the entry with chainIndex k, then renumber the later entries so
\* that the chainIndex values are contiguous again.
spliceEntry(k) ==
  /\ tamper.kind = "none"
  /\ k \in ChainIndexes(vaultEntry)
  /\ vaultEntry' =
       {IF e.chainIndex > k THEN [e EXCEPT !.chainIndex = e.chainIndex - 1] ELSE e :
          e \in {f \in vaultEntry : f.chainIndex # k}}
  /\ result' = [op |-> "none"]
  /\ tamper' = [kind |-> "splice", k |-> k, n |-> Cardinality(vaultEntry),
                field |-> "none"]
  /\ UNCHANGED <<emotionalState, nssiEvent, nextId, procVars, cveUsed, hashVars, passVars, memVars, sideVars>>

\* UPDATE of one column of an EmotionalState row that has a vault entry.
editEmotionalState(id, field) ==
  /\ tamper.kind = "none"
  /\ \E st \in emotionalState :
       /\ st.id = id
       /\ emotionalState' = (emotionalState \ {st}) \cup {[st EXCEPT ![field] = 5]}
  /\ result' = [op |-> "none"]
  /\ tamper' = [kind |-> "record", k |-> id, n |-> Cardinality(vaultEntry),
                field |-> field]
  /\ UNCHANGED <<nssiEvent, vaultEntry, nextId, procVars, cveUsed, hashVars, passVars, memVars, sideVars>>

\* UPDATE of the severity of an NssiEvent row that has a vault entry.
editNssiEvent(id) ==
  /\ tamper.kind = "none"
  /\ \E ev \in nssiEvent :
       /\ ev.id = id
       /\ nssiEvent' = (nssiEvent \ {ev}) \cup {[ev EXCEPT !.severity = 5]}
  /\ result' = [op |-> "none"]
  /\ tamper' = [kind |-> "record", k |-> id, n |-> Cardinality(vaultEntry),
                field |-> "severity"]
  /\ UNCHANGED <<emotionalState, vaultEntry, nextId, procVars, cveUsed, hashVars, passVars, memVars, sideVars>>

\* DELETE of a domain record that has a vault entry.
deleteRecord(id) ==
  /\ tamper.kind = "none"
  /\ \E r \in emotionalState \cup nssiEvent : r.id = id
  /\ emotionalState' = {st \in emotionalState : st.id # id}
  /\ nssiEvent' = {ev \in nssiEvent : ev.id # id}
  /\ result' = [op |-> "none"]
  /\ tamper' = [kind |-> "record", k |-> id, n |-> Cardinality(vaultEntry),
                field |-> "deleted"]
  /\ UNCHANGED <<vaultEntry, nextId, procVars, cveUsed, hashVars, passVars, memVars, sideVars>>

TamperNext ==
  \/ tamper.kind = "none" /\ \E insertState \in InsertStates : createEmotionalState(insertState)
  \/ tamper.kind = "none" /\ \E insertEvent \in InsertEvents : createNssiEvent(insertEvent)
  \/ \E k \in 0..(MaxChain - 1), field \in Columns : tamperVaultField(k, field)
  \/ \E k \in 0..(MaxChain - 1) : spliceEntry(k)
  \/ \E id \in 1..MaxRecords, field \in {"intensity", "valence", "arousal"} :
       editEmotionalState(id, field)
  \/ \E id \in 1..MaxRecords : editNssiEvent(id)
  \/ \E id \in 1..MaxRecords : deleteRecord(id)
  \/ getVaultStatus

\* A chain built by the create operations, one direct edit of the
\* storage, and verification.
TamperSpec == Init /\ [][TamperNext]_vars

\* ---------------------------------------------- claims under TamperSpec
\* The entry at some position stores a prevHash that is not the expected
\* previous digest (null at the first position, else the stored sha256 of
\* the entry before).
linkBroken(v) ==
  LET entries == findManyAsc(v)
  IN \E i \in 1..Len(entries) :
       entries[i].prevHash # (IF i = 1 THEN Null ELSE entries[i - 1].sha256)

\* C4: changing any single stored field of the entry at index k of a valid
\* chain makes verification report invalid, the loop stopping at entry k.
C4_FieldEditBreaksAtK ==
  tamper.kind = "field" =>
    /\ ~verifyLoop(findManyAsc(vaultEntry)).chainIntegrity
    /\ verifyLoop(findManyAsc(vaultEntry)).stoppedAt = tamper.k

\* C5 as stated: removing the entry at any index k in 0..N-1 of a valid
\* chain and renumbering the later entries makes verification report
\* invalid, with the break at or before index k.
C5_SpliceBreaksAtOrBeforeK ==
  tamper.kind = "splice" =>
    /\ ~verifyLoop(findManyAsc(vaultEntry)).chainIntegrity
    /\ verifyLoop(findManyAsc(vaultEntry)).stoppedAt <= tamper.k

\* C5 amended: removing an entry that is not the last one (k in 0..N-2) and
\* renumbering makes verification report invalid with the break at or
\* before k; removing the last entry leaves a chain that verifies valid.
C5_SpliceBeforeTailBreaks ==
  tamper.kind = "splice" =>
    IF tamper.k < tamper.n - 1
    THEN /\ ~verifyLoop(findManyAsc(vaultEntry)).chainIntegrity
         /\ verifyLoop(findManyAsc(vaultEntry)).stoppedAt <= tamper.k
         /\ result.op = "getVaultStatus" => ~result.chainIntegrity
    ELSE verifyLoop(findManyAsc(vaultEntry)).chainIntegrity

\* C5 witness: an entry before the tail of a three-entry chain was removed,
\* the rest renumbered, and getVaultStatus was run.
C5_Witness ==
  /\ tamper.kind = "splice"
  /\ tamper.n = 3
  /\ tamper.k < 2
  /\ result.op = "getVaultStatus"

\* C6: after any edit or deletion of a domain record that has a vault
\* entry, getVaultStatus returns chainIntegrity = false.
C6_RecordEditDetected ==
  tamper.kind = "record" => ~vaultStatus(vaultEntry).chainIntegrity

\* C8: verification reports the chain invalid whenever some entry's stored
\* prevHash differs from the expected previous digest.
C8_BrokenLinkReported ==
  linkBroken(vaultEntry) => ~vaultStatus(vaultEntry).chainIntegrity

\* ------------------------------------ operations on a broken chain
BrokenNext ==
  \/ \E insertState \in ConcInsertStates : createEmotionalState(insertState)
  \/ \E insertEvent \in ConcInsertEvents : createNssiEvent(insertEvent)
  \/ \E insertEntry \in InsertEntries : createVaultEntry(insertEntry)
  \/ getVaultStatus
  \/ \E k \in 0..(MaxChain - 1), field \in Columns : tamperVaultField(k, field)

\* The append operations and getVaultStatus, one at a time and with no
\* deleteAllData, on a store in which one column of one entry may be
\* edited directly at any point.
BrokenSpec == Init /\ [][BrokenNext]_vars

\* C22: a broken chain is never repaired or hidden: when getVaultStatus
\* returns chainIntegrity = false for the stored chain, it returns false
\* again after every further operation other than deleteAllData: a chain
\* that fails verification fails it after every step, and getVaultStatus
\* returns what verification of the stored chain gives.
C22_BrokenStaysBroken ==
  [][/\ result'.op = "getVaultStatus" =>
          result'.chainIntegrity = verifyLoop(findManyAsc(vaultEntry')).chainIntegrity
     /\ ~verifyLoop(findManyAsc(vaultEntry)).chainIntegrity
        => ~verifyLoop(findManyAsc(vaultEntry')).chainIntegrity]_vars

\* C22 witness: the chain was broken by a direct edit, entries were
\* appended after it, and getVaultStatus then returned false.
C22_Witness ==
  /\ tamper.kind = "field"
  /\ Cardinality(vaultEntry) > tamper.n
  /\ result.op = "getVaultStatus"
  /\ ~result.chainIntegrity

\* ------------------------------------------------------ the Vault page
\* The hero status card the Vault page renders for the data of its
\* /api/vault/status query (Null while the query has no data: loading, or
\* the request failed).  The headline is a constant of the page.
heroCard(vaultStatusData) ==
  [headline |-> "Your Data is Secure",
   statusLine |-> IF vaultStatusData # Null /\ vaultStatusData.chainIntegrity
                  THEN "Chain Integrity Verified"
                  ELSE "Initializing..."]

\* The Vault page is shown after GET /api/vault/status answered.
vaultPageLoaded ==
  /\ result' = [op |-> "Vault", data |-> vaultStatus(vaultEntry),
                card |-> heroCard(vaultStatus(vaultEntry))]
  /\ UNCHANGED <<dbVars, procVars, cveUsed, tamper, hashVars, passVars, memVars, sideVars>>

\* The Vault page is shown after GET /api/vault/status failed (status 500).
vaultPageFailed ==
  /\ result' = [op |-> "Vault", data |-> Null, card |-> heroCard(Null)]
  /\ UNCHANGED <<dbVars, procVars, cveUsed, tamper, hashVars, passVars, memVars, sideVars>>

PageNext ==
  \/ \E insertState \in InsertStates : createEmotionalState(insertState)
  \/ \E insertEvent \in InsertEvents : createNssiEvent(insertEvent)
  \/ \E insertEntry \in InsertEntries : createVaultEntry(insertEntry)
  \/ vaultPageLoaded
  \/ vaultPageFailed

\* The append operations, and the Vault page opened on the stored chain.
PageSpec == Init /\ [][PageNext]_vars

\* C23: whenever the stored chain fails verification, or the status
\* request fails, the Vault page shows no indication that the chain is
\* verified or the data secure, and it shows the integrity failure.
C23_BrokenChainNotShownHealthy ==
  (/\ result.op = "Vault"
   /\ (result.data = Null \/ ~result.data.chainIntegrity))
  => /\ result.card.headline # "Your Data is Secure"
     /\ result.card.statusLine \notin {"Chain Integrity Verified", "Initializing..."}

\* --------------------------------------------------------------- export
\* The JS object of a contentSummary: null, the summary of a state, or the
\* summary of an NSSI event.
summaryObject(cs) ==
  IF cs = Null THEN Null
  ELSE IF "severity" \in DOMAIN cs.summary
  THEN Obj(<<Pair("severity", Num(cs.summary.severity))>>)
  ELSE Obj(<<Pair("intensity", Num(cs.summary.intensity)),
             Pair("valence", Num(cs.summary.valence)),
             Pair("arousal", Num(cs.summary.arousal))>>)

\* The JS object of an EnrichedVaultEntry, its keys in the order
\* getVaultEntries writes them (id and timestamp are left out).
entryObject(x) ==
  Obj(<<Pair("dataHash", x.dataHash),
        Pair("entryType", Str(x.entryType)),
        Pair("referenceId", x.referenceId),
        Pair("encryptionStatus", Str("encrypted")),
        Pair("previousHash", x.previousHash),
        Pair("contentSummary", summaryObject(x.contentSummary))>>)

\* JSON text of the vaultEntries array of the export data: the text of
\* each entry, in the order getVaultEntries returned them.  (The other
\* members of data are reads of tables; they are left out.)
vaultEntriesText(value) ==
  [i \in 1..Len(value) |-> JSONStringify(entryObject(value[i]))]

\* Buffer.from(text).toString("base64"): an encoding that can be decoded.
base64(text) == [base64 |-> text]

\* The answer of GET /api/vault/export for a format and the entries read.
exportResponse(format, value) ==
  CASE format = "json" ->
         [status |-> 200, body |-> [vaultEntries |-> vaultEntriesText(value)]]
    [] format = "encrypted" ->
         [status |-> 200, body |-> base64([vaultEntries |-> vaultEntriesText(value)])]
    [] OTHER ->
         [status |-> 400, body |-> [error |-> "Invalid export format"]]

\* GET /api/vault/export?format=...: the reads, then the answer.
exportData(format) ==
  /\ result' = [op |-> "export", format |-> format,
                response |-> exportResponse(format,
                  LET entries == findManyAsc(vaultEntry)
                  IN [i \in 1..Len(entries) |->
                        enrichedEntry(entries[i], emotionalState, nssiEvent)])]
  /\ UNCHANGED <<dbVars, procVars, cveUsed, tamper, hashVars, passVars, memVars, sideVars>>

ExportFormats == {"json", "encrypted", "csv"}

ExportNext ==
  \/ \E insertState \in InsertStates : createEmotionalState(insertState)
  \/ \E insertEvent \in InsertEvents : createNssiEvent(insertEvent)
  \/ \E insertEntry \in InsertEntries : createVaultEntry(insertEntry)
  \/ \E format \in ExportFormats : exportData(format)

\* The append operations and GET /api/vault/export.
ExportSpec == Init /\ [][ExportNext]_vars

\* The value written after the first occurrence of a key in a JSON text.
jsonField(text, key) ==
  text[(CHOOSE i \in 1..Len(text) :
          /\ text[i] = [key |-> key]
          /\ \A j \in 1..(i - 1) : text[j] # [key |-> key]) + 1]

\* The vaultEntries texts an export answer carries, decoded when the
\* format is encrypted.
exportedEntries(format, response) ==
  IF format = "encrypted" THEN response.body.base64.vaultEntries
  ELSE response.body.vaultEntries

\* C24: GET /api/vault/export with any format leaves every stored vault
\* entry and domain record unchanged, and an export carries one entry per
\* stored entry, in chainIndex order, with the stored sha256 as dataHash
\* and the stored prevHash as previousHash.
C24_ExportReadOnly ==
  [][result'.op = "export" =>
       /\ UNCHANGED dbVars
       /\ result'.response.status = 200 <=> result'.format \in {"json", "encrypted"}
       /\ result'.response.status = 200 =>
            LET entries == findManyAsc(vaultEntry)
                texts == exportedEntries(result'.format, result'.response)
            IN /\ Len(texts) = Len(entries)
               /\ \A i \in 1..Len(entries) :
                    /\ jsonField(texts[i], "dataHash") = entries[i].sha256
                    /\ jsonField(texts[i], "previousHash") = entries[i].prevHash]_vars

\* C24 witness: a chain of three entries was exported in the encrypted
\* format.
C24_Witness ==
  /\ result.op = "export"
  /\ result.format = "encrypted"
  /\ result.response.status = 200
  /\ Cardinality(vaultEntry) = 3
  /\ cveUsed

\* --------------------------------------------------- the entry listing
\* The stored entry with exactly i - 1 entries of lower chainIndex.
entryOfRank(v, i) ==
  CHOOSE e \in v : Cardinality({d \in v : d.chainIndex < e.chainIndex}) = i - 1

\* C26: getVaultEntries returns one enriched entry per stored entry, the
\* i-th being the stored entry of i-th lowest chainIndex with its stored
\* digest, kind and previous hash, and leaves every table as it was.
C26_ListingOnePerEntryAscending ==
  [][result'.op = "getVaultEntries" =>
       /\ vaultEntry' = vaultEntry
       /\ emotionalState' = emotionalState
       /\ nssiEvent' = nssiEvent
       /\ Len(result'.value) = Cardinality(vaultEntry)
       /\ \A i \in 1..Len(result'.value) :
            LET e == entryOfRank(vaultEntry, i)
                x == result'.value[i]
            IN /\ x.dataHash = e.sha256
               /\ x.entryType = e.kind
               /\ x.previousHash = e.prevHash
               /\ x.contentSummary = contentSummary(e, emotionalState, nssiEvent)]_vars

C26_Witness ==
  /\ result.op = "getVaultEntries"
  /\ Len(result.value) = 3
  /\ Cardinality(vaultEntry) = 3
  /\ result.value[1].previousHash = Null
  /\ result.value[3].previousHash = result.value[2].dataHash
  /\ \E i \in 1..3 : result.value[i].contentSummary # Null

\* ------------------------------------------- appends with empty fields
\* Record ids are opaque strings, numbered from 1; 0 stands for the empty
\* string given where an id is expected.
EmptyId == 0

\* Calls of createVaultEntry whose entryType or referenceId is empty.
EmptyInsertEntries ==
  {[entryType |-> "", referenceId |-> 1, dataHash |-> ForeignHash],
   [entryType |-> "state", referenceId |-> EmptyId, dataHash |-> ForeignHash]}

EmptyNext ==
  \/ \E insertState \in InsertStates : createEmotionalState(insertState)
  \/ \E insertEvent \in InsertEvents : createNssiEvent(insertEvent)
  \/ \E insertEntry \in InsertEntries \cup EmptyInsertEntries :
       createVaultEntry(insertEntry)
  \/ getVaultEntries

\* The append operations, createVaultEntry also called with an empty
\* entryType or referenceId.
EmptySpec == Init /\ [][EmptyNext]_vars

\* C25: an append whose kind or referenceId is empty is rejected before
\* any write: no call returns such an entry and the vault never holds one.
C25_EmptyFieldsRejected ==
  /\ \A e \in vaultEntry : e.kind # "" /\ referencedId(e) # Id(EmptyId)
  /\ (result.op = "createVaultEntry" /\ "value" \in DOMAIN result) =>
       /\ result.value.entryType # ""
       /\ result.value.referenceId # EmptyId

\* ------------------------------------- operations that are not appends
\* Most rows a run creates in each of SessionLog and AnalyticsPattern.
MaxSideRows == 2

InsertLogs == {[duration |-> Num(60)], [duration |-> Null]}
InsertPatterns == {[patternType |-> "trend"]}
\* Bodies of PATCH /api/settings; an absent key is undefined.
SettingsUpdates ==
  {[theme |-> "dark"], [theme |-> "", privacyMode |-> FALSE]}

\* Mutant of createSessionLog: the log is also appended to the vault.
createSessionLogVaulted(insertLog) ==
  /\ Cardinality(sessionLog) < MaxSideRows
  /\ roomForEntry
  /\ LET log == [id |-> Cardinality(sessionLog) + 1,
                 durationSec |-> insertLog.duration, note |-> Null]
         lastVault == findLastVault(vaultEntry)
     IN /\ sessionLog' = sessionLog \cup {log}
        /\ vaultEntry' =
             insertVault(vaultEntry,
                         createVaultEntryRow([entryType |-> "session",
                                              referenceId |-> log.id,
                                              dataHash |-> ForeignHash],
                                             lastVault))
        /\ result' = [op |-> "createSessionLog",
                      value |-> [id |-> log.id, duration |-> log.durationSec]]
  /\ UNCHANGED <<emotionalState, nssiEvent, nextId, procVars, cveUsed, tamper,
                 hashVars, passVars, memVars, analyticsPattern, userSettings>>

\* createSessionLog: one row in SessionLog (ids are numbered per table).
createSessionLog(insertLog) ==
  /\ Cardinality(sessionLog) < MaxSideRows
  /\ LET log == [id |-> Cardinality(sessionLog) + 1,
                 durationSec |-> insertLog.duration, note |-> Null]
     IN /\ sessionLog' = sessionLog \cup {log}
        /\ result' = [op |-> "createSessionLog",
                      value |-> [id |-> log.id, duration |-> log.durationSec]]
  /\ UNCHANGED <<dbVars, procVars, cveUsed, tamper, hashVars, passVars, memVars,
                 analyticsPattern, userSettings>>

\* createAnalyticsPattern: one row in AnalyticsPattern.
createAnalyticsPattern(pattern) ==
  /\ Cardinality(analyticsPattern) < MaxSideRows
  /\ LET created == [id |-> Cardinality(analyticsPattern) + 1,
                     name |-> pattern.patternType]
     IN /\ analyticsPattern' = analyticsPattern \cup {created}
        /\ result' = [op |-> "createAnalyticsPattern",
                      value |-> [id |-> created.id, patternType |-> created.name]]
  /\ UNCHANGED <<dbVars, procVars, cveUsed, tamper, hashVars, passVars, memVars,
                 sessionLog, userSettings>>

\* The data of db.userSettings.update: theme and exportFormat are written
\* when truthy, privacyMode and dataRetentionDays when not undefined.
settingsAfter(settings, updates) ==
  [k \in DOMAIN settings |->
     IF /\ k \in DOMAIN updates
        /\ (k \in {"theme", "exportFormat"} => updates[k] # "")
     THEN updates[k]
     ELSE settings[k]]

\* updateUserSettings
updateUserSettings(updates) ==
  /\ userSettings' = settingsAfter(userSettings, updates)
  /\ result' = [op |-> "updateUserSettings",
                value |-> settingsAfter(userSettings, updates)]
  /\ UNCHANGED <<dbVars, procVars, cveUsed, tamper, hashVars, passVars, memVars,
                 sessionLog, analyticsPattern>>

\* getUserSettings
getUserSettings ==
  /\ result' = [op |-> "getUserSettings", value |-> userSettings]
  /\ UNCHANGED <<dbVars, procVars, cveUsed, tamper, hashVars, passVars, memVars, sideVars>>

\* db.emotionalState.findMany({orderBy: {recordedAt: "desc"}}): records are
\* created one at a time, so the newest is the one of highest id.
RECURSIVE findManyStatesDesc(_)
findManyStatesDesc(states) ==
  IF states = {} THEN <<>>
  ELSE LET r == CHOOSE x \in states : \A y \in states : x.id >= y.id
       IN <<r>> \o findManyStatesDesc(states \ {r})

\* getEmotionalStates, without a limit.
getEmotionalStates ==
  /\ result' = [op |-> "getEmotionalStates",
                value |-> LET states == findManyStatesDesc(emotionalState)
                          IN [i \in 1..Len(states) |->
                                [id |-> states[i].id,
                                 intensity |-> states[i].intensity,
                                 valence |-> states[i].valence,
                                 arousal |-> states[i].arousal,
                                 note |-> Null]]]
  /\ UNCHANGED <<dbVars, procVars, cveUsed, tamper, hashVars, passVars, memVars, sideVars>>

SideNext ==
  \/ \E insertState \in ConcInsertStates : createEmotionalState(insertState)
  \/ \E insertEvent \in ConcInsertEvents : createNssiEvent(insertEvent)
  \/ \E insertLog \in InsertLogs : createSessionLog(insertLog)
  \/ \E pattern \in InsertPatterns : createAnalyticsPattern(pattern)
  \/ \E updates \in SettingsUpdates : updateUserSettings(updates)
  \/ getUserSettings
  \/ getEmotionalStates
  \/ getVaultEntries
  \/ getVaultStatus
  \/ getLastVaultHash

\* The create operations and the operations that are no appends, one at a
\* time.
SideSpec == Init /\ [][SideNext]_vars

\* The operations that are neither createEmotionalState nor createNssiEvent.
NonAppendOps ==
  {"createSessionLog", "createAnalyticsPattern", "updateUserSettings",
   "getUserSettings", "getEmotionalStates", "getVaultEntries", "getVaultStatus",
   "getLastVaultHash"}

\* C30: createSessionLog, createAnalyticsPattern, updateUserSettings and
\* the get operations leave the set of stored vault entries and all their
\* fields unchanged.
C30_NonAppendsLeaveVault ==
  [][result'.op \in NonAppendOps => vaultEntry' = vaultEntry]_vars

C30_Witness ==
  /\ Cardinality(vaultEntry) = 2
  /\ Cardinality(sessionLog) = MaxSideRows
  /\ analyticsPattern # {}
  /\ userSettings.theme = "dark" /\ ~userSettings.privacyMode
  /\ result.op = "createSessionLog"

\* ------------------------------------------- a delete step that fails
\* The deleteMany the handler of deleteAllData is about to run rejects:
\* the error leaves the operation and the route answers 500.  What the
\* earlier steps deleted stays deleted.
eraseStepFails ==
  /\ erasePc \in {"idle", "analyticsPattern", "nssiEvent", "emotionalState", "sessionLog"}
  /\ erasePc' = "failed"
  /\ result' = [op |-> "deleteAllData", error |-> "Failed to delete data"]
  /\ UNCHANGED <<dbVars, procVars, cveUsed, tamper, hashVars, erasedLen, scan,
                 memVars, sideVars>>

\* The operations run one at a time: nothing else starts once deleteAllData
\* has.
beforeErase == erasePc = "idle"

FailNext ==
  \/ beforeErase /\ \E insertState \in InsertStates : createEmotionalState(insertState)
  \/ beforeErase /\ \E insertEvent \in InsertEvents : createNssiEvent(insertEvent)
  \/ eraseVault
  \/ eraseAnalyticsPatterns
  \/ eraseNssiEvents
  \/ eraseEmotionalStates
  \/ eraseSessionLogs
  \/ eraseStepFails

\* Creates one at a time, then one deleteAllData any of whose delete steps
\* may fail.
FailSpec == Init /\ [][FailNext]_vars

\* C29: after a deleteAllData one of whose delete steps failed, either no
\* vault entry or domain record was removed or all of them were.
C29_EraseAllOrNothing ==
  erasePc = "failed" =>
    \/ erasedLen = -1
    \/ vaultEntry = {} /\ emotionalState = {} /\ nssiEvent = {}

\* ------------------------------------------------------- the seed script
\* Mutant of seedBody: the payload is hashed as the stored text.
seedBodyPayloadText(r, lastHash, chainIndex) ==
  Obj(<<Pair("userId", userId),
        Pair("kind", Str(r.kind)),
        Pair("payload", [text |-> JSONStringify(r.payload)]),
        Pair("prevHash", lastHash),
        Pair("chainIndex", Num(chainIndex))>>)

\* body = { userId: user.id, ...r, prevHash: lastHash, chainIndex }
seedBody(r, lastHash, chainIndex) ==
  Obj(<<Pair("userId", userId),
        Pair("kind", Str(r.kind)),
        Pair("payload", r.payload),
        Pair("prevHash", lastHash),
        Pair("chainIndex", Num(chainIndex))>>)

\* The row the seed loop gives db.vaultEntry.create; prevHash undefined is
\* stored as NULL.
seedRow(r, lastHash, chainIndex) ==
  [kind |-> r.kind,
   payload |-> JSONStringify(r.payload),
   prevHash |-> lastHash,
   chainIndex |-> chainIndex,
   sha256 |-> generateHash(JSONStringify(seedBody(r, lastHash, chainIndex)))]

\* The rows the seed loop writes from records[i] on.
RECURSIVE seedChain(_, _, _, _)
seedChain(records, i, lastHash, chainIndex) ==
  IF i > Len(records) THEN {}
  ELSE LET row == seedRow(records[i], lastHash, chainIndex)
       IN {row} \cup seedChain(records, i + 1, row.sha256, chainIndex + 1)

\* main() of the seed script, run on an empty database.
seedMain ==
  /\ nextId = 1
  /\ sessionLog = {} /\ analyticsPattern = {}
  /\ LET session == [id |-> nextId, durationSec |-> 2400, note |-> Str("Demo session")]
         s1 == [id |-> nextId + 1, intensity |-> 62, valence |-> -20, arousal |-> 70]
         s2 == [id |-> nextId + 2, intensity |-> 48, valence |-> 10, arousal |-> 45]
         n1 == [id |-> nextId + 3, severity |-> 2]
         records ==
           <<[kind |-> "session",
              payload |-> Obj(<<Pair("id", Id(session.id)), Pair("note", session.note)>>)],
             [kind |-> "state",
              payload |-> Obj(<<Pair("id", Id(s1.id)), Pair("v", Num(s1.valence)),
                                Pair("a", Num(s1.arousal))>>)],
             [kind |-> "state",
              payload |-> Obj(<<Pair("id", Id(s2.id)), Pair("v", Num(s2.valence)),
                                Pair("a", Num(s2.arousal))>>)],
             [kind |-> "nssi",
              payload |-> Obj(<<Pair("id", Id(n1.id)), Pair("severity", Num(n1.severity))>>)]>>
     IN /\ sessionLog' = {session}
        /\ emotionalState' = {s1, s2}
        /\ nssiEvent' = {n1}
        /\ vaultEntry' = seedChain(records, 1, Null, 0)
        /\ analyticsPattern' = {[id |-> nextId + 4, name |-> "evening-spike"]}
  /\ nextId' = nextId + SeedIds
  /\ result' = [op |-> "seed"]
  /\ UNCHANGED <<procVars, cveUsed, tamper, hashVars, passVars, memVars, userSettings>>

SeedNext ==
  \/ seedMain
  \/ \E insertState \in InsertStates : createEmotionalState(insertState)
  \/ \E insertEvent \in InsertEvents : createNssiEvent(insertEvent)
  \/ getVaultStatus

\* The seed script on the empty database, and the create operations and
\* getVaultStatus one at a time.
SeedSpec == Init /\ [][SeedNext]_vars

\* C28: once the seed script has run, the chain starts with its entries of
\* kind session, state, state, nssi at chainIndex 0..3, and the chain
\* verifies, also after later createEmotionalState / createNssiEvent calls:
\* getVaultStatus returns chainIntegrity true.
C28_SeededChainVerifies ==
  seeded =>
    LET entries == findManyAsc(vaultEntry)
    IN /\ Len(entries) >= SeedEntries
       /\ [i \in 1..SeedEntries |-> entries[i].kind] = <<"session", "state", "state", "nssi">>
       /\ \A i \in 1..Len(entries) : entries[i].chainIndex = i - 1
       /\ verifyLoop(entries).chainIntegrity
       /\ result.op = "getVaultStatus" => result.chainIntegrity

C28_Witness ==
  /\ seeded
  /\ Cardinality(vaultEntry) = SeedEntries + 2
  /\ \E e \in vaultEntry : e.chainIndex >= SeedEntries /\ e.kind = "nssi"
  /\ \E e \in vaultEntry : e.chainIndex >= SeedEntries /\ e.kind = "state"
  /\ result.op = "getVaultStatus"
  /\ result.totalEntries = SeedEntries + 2
  /\ result.chainIntegrity

\* ------------------------------------------------------------ MemStorage
\* Latest reading of the clock in a run.
MaxClock == 2

\* s without its i-th element.
removeAt(s, i) == SubSeq(s, 1, i - 1) \o SubSeq(s, i + 1, Len(s))

\* Array.prototype.sort with (a, b) => b.timestamp - a.timestamp: newest
\* first; the sort is stable, entries of equal timestamp keep their order.
RECURSIVE sortByTimestampDesc(_)
sortByTimestampDesc(entries) ==
  IF entries = <<>> THEN <<>>
  ELSE LET i == CHOOSE i \in 1..Len(entries) :
                  /\ \A j \in 1..Len(entries) :
                       entries[j].timestamp <= entries[i].timestamp
                  /\ \A j \in 1..(i - 1) :
                       entries[j].timestamp < entries[i].timestamp
       IN <<entries[i]>> \o sortByTimestampDesc(removeAt(entries, i))

\* Array.prototype.sort with (a, b) => a.timestamp - b.timestamp: oldest
\* first, stable.
RECURSIVE sortByTimestampAsc(_)
sortByTimestampAsc(entries) ==
  IF entries = <<>> THEN <<>>
  ELSE LET i == CHOOSE i \in 1..Len(entries) :
                  /\ \A j \in 1..Len(entries) :
                       entries[j].timestamp >= entries[i].timestamp
                  /\ \A j \in 1..(i - 1) :
                       entries[j].timestamp > entries[i].timestamp
       IN <<entries[i]>> \o sortByTimestampAsc(removeAt(entries, i))

\* MemStorage.getLastVaultHash: entries[0]?.dataHash || null of the map's
\* values sorted newest first.
memGetLastVaultHash(entries) ==
  IF entries = <<>> THEN Null ELSE sortByTimestampDesc(entries)[1].dataHash

\* MemStorage.createVaultEntry: the map after the set; the entry is stamped
\* with the clock.
memCreateVaultEntry(entries, insertEntry, clock) ==
  Append(entries, [dataHash |-> insertEntry.dataHash,
                   entryType |-> insertEntry.entryType,
                   referenceId |-> insertEntry.referenceId,
                   encryptionStatus |-> insertEntry.encryptionStatus,
                   previousHash |-> insertEntry.previousHash,
                   timestamp |-> clock])

\* {...insertState, id, timestamp}
memState(insertState, id, clock) ==
  Obj(<<Pair("intensity", Num(insertState.intensity)),
        Pair("valence", Num(insertState.valence)),
        Pair("arousal", Num(insertState.arousal)),
        Pair("id", Id(id)),
        Pair("timestamp", Num(clock))>>)

\* {...insertEvent, id, timestamp}
memEvent(insertEvent, id, clock) ==
  Obj(<<Pair("severity", Num(insertEvent.severity)),
        Pair("id", Id(id)),
        Pair("timestamp", Num(clock))>>)

\* The vaultEntries map after a create operation stored record: the record
\* is hashed into an entry whose previousHash is what getLastVaultHash
\* returns.
memAppend(entries, record, entryType, clock) ==
  memCreateVaultEntry(
    entries,
    [dataHash |-> generateHash(JSONStringify(record)),
     entryType |-> entryType,
     referenceId |-> Get(record, "id"),
     encryptionStatus |-> "encrypted",
     previousHash |-> memGetLastVaultHash(entries)],
    clock)

\* MemStorage.createEmotionalState
memCreateEmotionalState(insertState) ==
  /\ Len(memVaultEntries) < MaxChain
  /\ LET state == memState(insertState, Len(memRecords) + 1, now)
     IN /\ memRecords' = Append(memRecords, state)
        /\ memVaultEntries' = memAppend(memVaultEntries, state, "emotional_state", now)
        /\ result' = [op |-> "MemStorage.createEmotionalState", value |-> state]
  /\ UNCHANGED <<dbVars, procVars, cveUsed, tamper, hashVars, passVars, now, sideVars>>

\* MemStorage.createNssiEvent
memCreateNssiEvent(insertEvent) ==
  /\ Len(memVaultEntries) < MaxChain
  /\ LET event == memEvent(insertEvent, Len(memRecords) + 1, now)
     IN /\ memRecords' = Append(memRecords, event)
        /\ memVaultEntries' = memAppend(memVaultEntries, event, "nssi_event", now)
        /\ result' = [op |-> "MemStorage.createNssiEvent", value |-> event]
  /\ UNCHANGED <<dbVars, procVars, cveUsed, tamper, hashVars, passVars, now, sideVars>>

\* The loop of MemStorage.getVaultStatus over the sorted entries: false at
\* the first entry whose previousHash is not the dataHash before it.
memChainIntegrity(sorted) ==
  \A i \in 2..Len(sorted) : sorted[i].previousHash = sorted[i - 1].dataHash

\* MemStorage.getVaultStatus
memGetVaultStatus ==
  /\ result' = [op |-> "MemStorage.getVaultStatus",
                totalEntries |-> Len(memVaultEntries),
                encryptedEntries |->
                  Cardinality({i \in 1..Len(memVaultEntries) :
                                 memVaultEntries[i].encryptionStatus = "encrypted"}),
                lastHash |-> IF memGetLastVaultHash(memVaultEntries) = Null
                             THEN Str("")
                             ELSE memGetLastVaultHash(memVaultEntries),
                chainIntegrity |->
                  memChainIntegrity(sortByTimestampAsc(memVaultEntries))]
  /\ UNCHANGED <<dbVars, procVars, cveUsed, tamper, hashVars, passVars, memVars, sideVars>>

\* A millisecond passes.
tick ==
  /\ now < MaxClock
  /\ now' = now + 1
  /\ UNCHANGED <<dbVars, result, procVars, cveUsed, tamper, hashVars, passVars,
                 memRecords, memVaultEntries, sideVars>>

MemNext ==
  \/ \E insertState \in InsertStates : memCreateEmotionalState(insertState)
  \/ \E insertEvent \in InsertEvents : memCreateNssiEvent(insertEvent)
  \/ memGetVaultStatus
  \/ tick

\* MemStorage: the create operations and getVaultStatus one at a time, the
\* clock advancing between calls or standing still.
MemSpec == Init /\ [][MemNext]_vars

\* C27: in MemStorage every vault entry's previousHash is the dataHash of
\* the entry appended immediately before it, whatever the timestamps, and
\* getVaultStatus returns chainIntegrity true.
C27_MemChainLinked ==
  /\ \A i \in 2..Len(memVaultEntries) :
       memVaultEntries[i].previousHash = memVaultEntries[i - 1].dataHash
  /\ result.op = "MemStorage.getVaultStatus" => result.chainIntegrity

\* ------------------------------ listing entries whose record is gone
ListNext ==
  \/ \E insertState \in InsertStates : createEmotionalState(insertState)
  \/ \E insertEvent \in InsertEvents : createNssiEvent(insertEvent)
  \/ \E insertEntry \in InsertEntries : createVaultEntry(insertEntry)
  \/ \E id \in 1..MaxRecords : deleteRecord(id)
  \/ getVaultEntries

\* The append operations, the removal of one domain record from its table
\* while the vault keeps the entry for it, and getVaultEntries.
ListSpec == Init /\ [][ListNext]_vars

\* C19: getVaultEntries raises no error and returns every entry; an entry
\* whose referenced record is not in the record store has contentSummary
\* null, and the others are unaffected: each entry is returned with its own
\* digest, kind and link, and an entry whose payload id names a record
\* that exists has that record's summary.
C19_MissingRecordGivesNullSummary ==
  result.op = "getVaultEntries" =>
    LET entries == findManyAsc(vaultEntry)
    IN /\ Len(result.value) = Len(entries)
       /\ \A i \in 1..Len(entries) :
            LET e == entries[i]
                x == result.value[i]
            IN /\ x.dataHash = e.sha256
               /\ x.entryType = e.kind
               /\ x.previousHash = e.prevHash
               /\ referencedRecords(e, emotionalState, nssiEvent) = {} =>
                    x.contentSummary = Null
               /\ (/\ payloadId(e) # Null
                   /\ referencedRecords(e, emotionalState, nssiEvent) # {}) =>
                    /\ x.contentSummary # Null
                    /\ x.referenceId = payloadId(e)

\* C19 witness: a record that has an entry was removed, another record of
\* the same table was kept, and the listing returned the first entry with
\* a null summary and the second with its record's summary.
C19_Witness ==
  /\ tamper.kind = "record"
  /\ tamper.field = "deleted"
  /\ result.op = "getVaultEntries"
  /\ \E i, j \in 1..Len(result.value) :
       /\ result.value[i].entryType = result.value[j].entryType
       /\ result.value[i].referenceId = Id(tamper.k)
       /\ result.value[i].contentSummary = Null
       /\ result.value[j].contentSummary # Null

\* ------------------------------------------------ the digest of a struct
\* The orders the five keys of a vaultData structure can be written in.
KeyOrders ==
  {f \in [1..Len(samplePairs) -> 1..Len(samplePairs)] :
     \A i, j \in 1..Len(samplePairs) : f[i] = f[j] => i = j}

\* structA is written in the order of createEmotionalState, structB holds
\* the same key/value pairs inserted in any order.
InitHashInputs ==
  /\ structA = Obj(samplePairs)
  /\ \E f \in KeyOrders :
       structB = Obj([i \in 1..Len(samplePairs) |-> samplePairs[f[i]]])
  /\ digestA = Null
  /\ digestB = Null

\* this.generateHash(JSON.stringify(vaultData)) applied to structA.
hashStructA ==
  /\ digestA = Null
  /\ digestA' = generateHash(JSONStringify(structA))
  /\ UNCHANGED <<dbVars, result, procVars, cveUsed, tamper, passVars, structA, structB, digestB, memVars, sideVars>>

\* this.generateHash(JSON.stringify(vaultData)) applied to structB.
hashStructB ==
  /\ digestB = Null
  /\ digestB' = generateHash(JSONStringify(structB))
  /\ UNCHANGED <<dbVars, result, procVars, cveUsed, tamper, passVars, structA, structB, digestA, memVars, sideVars>>

HashNext == hashStructA \/ hashStructB

\* The digest computed for two structures with the same key/value pairs.
HashInit ==
  InitDb /\ InitProcs /\ InitHistory /\ InitHashInputs /\ InitPass /\ InitMem /\ InitSide

HashSpec == HashInit /\ [][HashNext]_vars

\* --------------------------------------------------- claim under HashSpec
\* C10: two structures with the same key/value pairs but different key
\* order produce the same digest.
C10_DigestIgnoresKeyOrder ==
  (digestA # Null /\ digestB # Null) => digestA = digestB

====
